---- MODULE Spec2Model ----
(***************************************************************************)
(* f1bot: the POST /api/chat handler of src/app/api/chat/route.ts, as a    *)
(* state machine over one request, together with the services it calls    *)
(* (embedding provider, vector store, generation provider) and the client  *)
(* that reads the streamed response; the seed script of                    *)
(* src/scripts/clearDb.ts (createCollection, loadSampleData, scrapePage,   *)
(* run); and two requests handled at the same time.                        *)
(*                                                                         *)
(* A text is a sequence of one-character strings.                          *)
(***************************************************************************)
EXTENDS Integers, Sequences, FiniteSets, TLC

VARIABLES
    body,            \* what req.json() will yield: "invalid", "nomessages" or "ok"
    messages,        \* the messages array of the request body
    collection,      \* the records stored in the Astra DB collection
    connected,       \* the client is still connected
    pc,              \* position of the handler
    userQuery,       \* let userQuery
    queryEmbedding,  \* const queryEmbedding
    searchResults,   \* const searchResults
    docContext,      \* const docContext
    systemPrompt,    \* const systemPrompt
    embedCalls,      \* inputs of the openaiClient.embeddings.create calls made
    searches,        \* options of the collection.find calls made
    genCalls,        \* arguments of the streamText calls made
    responses,       \* the Response objects the handler has returned
    logged,          \* what console.error has received
    failedAt,        \* the step at which something failed, "none" if nothing did
    genState,        \* the generation stream: none, running, done, failed
    produced,        \* tokens the generation provider has produced
    delivered,       \* tokens written to the response body while the client listens
    exists,          \* the collection exists in the store
    pages,           \* for each source URL, the number of chunks its page splits into
    seedPc,          \* position of the seed script (clearDb.ts run)
    urlIdx,          \* loadSampleData: index of the url of the outer loop
    chunks,          \* loadSampleData: const chunks
    chunkIdx,        \* loadSampleData: index of the chunk of the inner loop
    vector,          \* loadSampleData: const vector
    inFlight,        \* the remote calls of the seed script that have not returned
    events,          \* the remote calls of the current seed run, start and end
    exits,           \* the exit codes of the seed runs so far
    runs,            \* the seed runs started so far
    page,            \* scrapePage: the document loaded in the browser
    rawContent,      \* scrapePage: const rawContent
    normalized,      \* scrapePage: the text it returns
    scrapePc,        \* position of scrapePage
    peer,            \* a second request handled at the same time, its locals
    bubble,          \* the Bubble component showing the last message
    counter,         \* the count script (countDocs) and the size of the store it asks
    clearPc,         \* position of the clear script (clearDatabase)
    clears,          \* the exit codes of the clear runs so far
    config           \* the configuration values, the module load and the first uses

chatVars == <<body, messages, connected, pc, userQuery, queryEmbedding,
              searchResults, docContext, systemPrompt, embedCalls, searches, genCalls,
              responses, logged, failedAt, genState, produced, delivered>>

seedVars == <<exists, pages, seedPc, urlIdx, chunks, chunkIdx, vector, inFlight,
              events, exits, runs>>

scrapeVars == <<page, rawContent, normalized, scrapePc>>

toolVars == <<bubble, counter, clearPc, clears, config>>

\* What a request handler leaves alone.
otherVars == <<seedVars, scrapeVars, peer, toolVars>>

vars == <<chatVars, collection, seedVars, scrapeVars, peer, toolVars>>

(***************************************************************************)
(* Bounds of the model.                                                    *)
(***************************************************************************)
MaxMsgs == 2
MaxLen == 1
MaxParts == 1
MaxDocs == 6
MaxTokens == 2
MaxUrls == 2
MaxChunks == 2
MaxRuns == 2
CutLen == 2
CutParts == 3

Chars == {"a", "b"}

SeqsUpTo(S, n) == UNION {[1..k -> S] : k \in 0..n}

Texts(n) == SeqsUpTo(Chars, n)

Min(a, b) == IF a <= b THEN a ELSE b

(***************************************************************************)
(* Messages.  A message carries a role, optionally a content string and    *)
(* optionally a parts array; a part has a type and, when it is a text      *)
(* part, a text.                                                           *)
(***************************************************************************)
Roles == {"user", "assistant"}

TextPart(t) == [type |-> "text", text |-> t]
FilePart == [type |-> "file", text |-> <<>>]

Parts(len) == {FilePart} \cup {TextPart(t) : t \in Texts(len)}

FlatMessage(r, s) ==
    [role |-> r, hasContent |-> TRUE, content |-> s, hasParts |-> FALSE, parts |-> <<>>]

StructuredMessage(r, p) ==
    [role |-> r, hasContent |-> FALSE, content |-> <<>>, hasParts |-> TRUE, parts |-> p]

BareMessage(r) ==
    [role |-> r, hasContent |-> FALSE, content |-> <<>>, hasParts |-> FALSE, parts |-> <<>>]

\* Messages of one shape: flat, structured, or carrying neither field.
ShapedMessages(len, n) ==
    {BareMessage(r) : r \in Roles}
        \cup {FlatMessage(r, s) : r \in Roles, s \in Texts(len)}
        \cup {StructuredMessage(r, p) : r \in Roles, p \in SeqsUpTo(Parts(len), n)}

\* Earlier turns of a conversation: plain text messages.
EarlierTurns == SeqsUpTo({FlatMessage(r, <<c>>) : r \in Roles, c \in Chars}, MaxMsgs - 1)

Conversations ==
    {<<>>} \cup {h \o <<m>> : h \in EarlierTurns, m \in ShapedMessages(MaxLen, MaxParts)}

(***************************************************************************)
(* JavaScript array helpers used by the handler.                           *)
(***************************************************************************)
\* Array.prototype.join over an array of texts.
RECURSIVE Join(_, _)
Join(texts, sep) ==
    IF texts = <<>> THEN <<>>
    ELSE IF Len(texts) = 1 THEN texts[1]
    ELSE texts[1] \o sep \o Join(Tail(texts), sep)

IsTextPart(part) == part.type = "text"

\* textParts.map((part) => part.text)
PartTexts(textParts) == [i \in 1..Len(textParts) |-> textParts[i].text]

\* route.ts 26-34 with .join() in place of .join(""): the default separator
ExtractQueryDefaultJoin(msgs) ==
    IF msgs = <<>> THEN <<>>
    ELSE LET lastMessage == msgs[Len(msgs)]
             textParts == SelectSeq(lastMessage.parts, IsTextPart)
         IN  IF lastMessage.hasParts THEN Join(PartTexts(textParts), <<",">>)
             ELSE IF lastMessage.hasContent /\ lastMessage.content # <<>>
                  THEN lastMessage.content
                  ELSE <<>>

\* route.ts 26-34: the text of messages[messages.length - 1]
ExtractQuery(msgs) ==
    IF msgs = <<>> THEN <<>>
    ELSE LET lastMessage == msgs[Len(msgs)]
             textParts == SelectSeq(lastMessage.parts, IsTextPart)
         IN  IF lastMessage.hasParts THEN Join(PartTexts(textParts), <<>>)
             ELSE IF lastMessage.hasContent /\ lastMessage.content # <<>>
                  THEN lastMessage.content
                  ELSE <<>>

(***************************************************************************)
(* The services.  An embedding is abstracted to the model that produced it *)
(* and one signed component; the store ranks by dot product.               *)
(***************************************************************************)
Count(text, c) == Cardinality({i \in 1..Len(text) : text[i] = c})

\* openaiClient.embeddings.create({model: "text-embedding-3-small", input})
Embedding(text) ==
    [model |-> "text-embedding-3-small", dir |-> Count(text, "a") - Count(text, "b")]

NoEmbedding == [model |-> "", dir |-> 0]

\* The text of the i-th stored chunk.
DocText(i) == [k \in 1..(1 + (i \div 2)) |-> IF (i + k) % 2 = 0 THEN "a" ELSE "b"]

\* The record insertOne stores for a chunk: {$vector, text}.
StoredRecord(i) == [text |-> DocText(i), vector |-> Embedding(DocText(i))]

Stored(n) == [i \in 1..n |-> StoredRecord(i)]

DotProduct(q, v) == q.dir * v.dir

\* The records at the positions idxs, most similar to q first, earlier insert first on ties.
RECURSIVE Ranked(_, _, _)
Ranked(coll, idxs, q) ==
    IF idxs = {} THEN <<>>
    ELSE LET best == CHOOSE i \in idxs : \A j \in idxs :
                        \/ DotProduct(q, coll[i].vector) > DotProduct(q, coll[j].vector)
                        \/ /\ DotProduct(q, coll[i].vector) = DotProduct(q, coll[j].vector)
                           /\ i <= j
         IN  <<coll[best]>> \o Ranked(coll, idxs \ {best}, q)

\* collection.find({}, {sort: {$vector: q}, limit}).toArray()
Find(coll, q, limit) ==
    SubSeq(Ranked(coll, 1..Len(coll), q), 1, Min(limit, Len(coll)))

\* route.ts 50: limit: 5
Limit == 5

\* searchResults.map((doc) => doc.text)
DocTexts(results) == [i \in 1..Len(results) |-> results[i].text]

(***************************************************************************)
(* The system prompt: the template literal of route.ts 64-81, one element  *)
(* per instruction block, delimiter line or line break.                    *)
(***************************************************************************)
PromptHead ==
    <<"You are an AI assistant who knows everything about Formula One. [...]", "\n",
      "\n", "----------", "\n", "\n", "START CONTEXT", "\n">>

PromptTail == <<"\n", "END CONTEXT", "\n", "\n", "----------">>

(***************************************************************************)
(* The responses of the handler.                                           *)
(***************************************************************************)
\* route.ts 93-96
ErrorResponse ==
    [status |-> 500, contentType |-> "application/json",
     body |-> "{\"error\":\"Internal server error\"}"]

\* route.ts 90: result.toTextStreamResponse()
StreamResponse ==
    [status |-> 200, contentType |-> "text/plain; charset=utf-8", body |-> "text stream"]

ParseErrors == {"SyntaxError: Unexpected token"}
ExtractErrors == {"TypeError: Cannot read properties of undefined (reading 'length')"}
ProviderErrors == {"RateLimitError: 429", "APIError: 500"}
StoreErrors == {"DataAPIError: collection unreachable"}
ConvertErrors == {"MessageConversionError"}

\* The seed script is not running.
SeedIdle ==
    /\ exists = TRUE
    /\ pages = [u \in 1..MaxUrls |-> 0]
    /\ seedPc = "idle"
    /\ urlIdx = 0
    /\ chunks = <<>>
    /\ chunkIdx = 0
    /\ vector = NoEmbedding
    /\ inFlight = {}
    /\ events = <<>>
    /\ exits = <<>>
    /\ runs = 0

\* scrapePage is not running.
NoDocument == [elements |-> <<>>, removable |-> <<>>, rest |-> <<>>]

ScrapeIdle ==
    /\ page = NoDocument
    /\ rawContent = <<>>
    /\ normalized = <<>>
    /\ scrapePc = "idle"

\* The locals of a request that has not arrived.
NoRequest ==
    [messages |-> <<>>, pc |-> "idle", userQuery |-> <<>>,
     queryEmbedding |-> NoEmbedding, searchResults |-> <<>>, docContext |-> <<>>,
     systemPrompt |-> <<>>, response |-> "none"]

\* No second request.
PeerIdle == peer = NoRequest

NoBubble == [rendered |-> FALSE, text |-> <<>>]

NoCount == [pc |-> "idle", docs |-> 0, printed |-> <<>>, error |-> "", exit |-> -1]

NoConfig == [program |-> "", missing |-> {}, pc |-> "idle", thrown |-> "", remote |-> <<>>]

\* Nothing is rendered and no other script runs.
ToolsIdle ==
    /\ bubble = NoBubble
    /\ counter = NoCount
    /\ clearPc = "idle"
    /\ clears = <<>>
    /\ config = NoConfig

Init ==
    /\ body \in {"invalid", "nomessages", "ok"}
    /\ messages \in (IF body = "ok" THEN Conversations ELSE {<<>>})
    /\ collection \in {Stored(n) : n \in 0..MaxDocs}
    /\ connected = TRUE
    /\ pc = "parse"
    /\ userQuery = <<>>
    /\ queryEmbedding = NoEmbedding
    /\ searchResults = <<>>
    /\ docContext = <<>>
    /\ systemPrompt = <<>>
    /\ embedCalls = <<>>
    /\ searches = <<>>
    /\ genCalls = <<>>
    /\ responses = <<>>
    /\ logged = <<>>
    /\ failedAt = "none"
    /\ genState = "none"
    /\ produced = 0
    /\ delivered = 0
    /\ SeedIdle
    /\ ScrapeIdle
    /\ PeerIdle
    /\ ToolsIdle

\* route.ts 91-97: the catch block
Catch(step, error) ==
    /\ failedAt' = step
    /\ logged' = Append(logged, error)
    /\ responses' = Append(responses, ErrorResponse)
    /\ pc' = "returned"

\* route.ts 23: await req.json() resolves
ParseOk ==
    /\ pc = "parse"
    /\ body # "invalid"
    /\ pc' = "extract"
    /\ UNCHANGED <<otherVars, body, messages, collection, connected, userQuery, queryEmbedding,
                   searchResults, docContext, systemPrompt, embedCalls, searches,
                   genCalls, responses, logged, failedAt, genState, produced, delivered>>

\* route.ts 23: await req.json() rejects
ParseThrow ==
    /\ pc = "parse"
    /\ body = "invalid"
    /\ \E e \in ParseErrors : Catch("parse", e)
    /\ UNCHANGED <<otherVars, body, messages, collection, connected, userQuery, queryEmbedding,
                   searchResults, docContext, systemPrompt, embedCalls, searches,
                   genCalls, genState, produced, delivered>>

\* route.ts 26-34 with a query without text rejected as a malformed request
ExtractRejectEmpty ==
    /\ pc = "extract"
    /\ body = "ok"
    /\ IF ExtractQuery(messages) = <<>>
       THEN /\ Catch("extract", "MalformedRequestError")
            /\ UNCHANGED userQuery
       ELSE /\ userQuery' = ExtractQuery(messages)
            /\ pc' = "embed"
            /\ UNCHANGED <<responses, logged, failedAt>>
    /\ UNCHANGED <<otherVars, body, messages, collection, connected, queryEmbedding,
                   searchResults, docContext, systemPrompt, embedCalls, searches,
                   genCalls, genState, produced, delivered>>

\* route.ts 26-34
ExtractOk ==
    /\ pc = "extract"
    /\ body = "ok"
    /\ userQuery' = ExtractQuery(messages)
    /\ pc' = "embed"
    /\ UNCHANGED <<otherVars, body, messages, collection, connected, queryEmbedding,
                   searchResults, docContext, systemPrompt, embedCalls, searches,
                   genCalls, responses, logged, failedAt, genState, produced, delivered>>

\* route.ts 26: messages.length of a body without a messages array
ExtractThrow ==
    /\ pc = "extract"
    /\ body = "nomessages"
    /\ \E e \in ExtractErrors : Catch("extract", e)
    /\ UNCHANGED <<otherVars, body, messages, collection, connected, userQuery, queryEmbedding,
                   searchResults, docContext, systemPrompt, embedCalls, searches,
                   genCalls, genState, produced, delivered>>

\* route.ts 37-41 with one embedding call for each message of the conversation
EmbedEveryMessage ==
    /\ pc = "embed"
    /\ embedCalls' = embedCalls
            \o [i \in 1..Len(messages) |-> ExtractQuery(SubSeq(messages, 1, i))]
    /\ queryEmbedding' = Embedding(userQuery)
    /\ pc' = "retrieve"
    /\ UNCHANGED <<otherVars, body, messages, collection, connected, userQuery,
                   searchResults, docContext, systemPrompt, searches,
                   genCalls, responses, logged, failedAt, genState, produced, delivered>>

\* route.ts 37-41: the embedding call resolves
EmbedOk ==
    /\ pc = "embed"
    /\ embedCalls' = Append(embedCalls, userQuery)
    /\ queryEmbedding' = Embedding(userQuery)
    /\ pc' = "retrieve"
    /\ UNCHANGED <<otherVars, body, messages, collection, connected, userQuery,
                   searchResults, docContext, systemPrompt, searches,
                   genCalls, responses, logged, failedAt, genState, produced, delivered>>

\* route.ts 37-40: the embedding call rejects
EmbedThrow ==
    /\ pc = "embed"
    /\ embedCalls' = Append(embedCalls, userQuery)
    /\ \E e \in ProviderErrors : Catch("embed", e)
    /\ UNCHANGED <<otherVars, body, messages, collection, connected, userQuery, queryEmbedding,
                   searchResults, docContext, systemPrompt, searches,
                   genCalls, genState, produced, delivered>>

\* route.ts 44-53 with the limit option left out of the find call
RetrieveNoLimit ==
    /\ pc = "retrieve"
    /\ searches' = Append(searches, [sort |-> queryEmbedding, limit |-> 0])
    /\ searchResults' = Find(collection, queryEmbedding, Len(collection))
    /\ pc' = "assemble"
    /\ UNCHANGED <<otherVars, body, messages, collection, connected, userQuery, queryEmbedding,
                   docContext, systemPrompt, embedCalls,
                   genCalls, responses, logged, failedAt, genState, produced, delivered>>

\* route.ts 44-53: the search resolves
RetrieveOk ==
    /\ pc = "retrieve"
    /\ searches' = Append(searches, [sort |-> queryEmbedding, limit |-> Limit])
    /\ searchResults' = Find(collection, queryEmbedding, Limit)
    /\ pc' = "assemble"
    /\ UNCHANGED <<otherVars, body, messages, collection, connected, userQuery, queryEmbedding,
                   docContext, systemPrompt, embedCalls,
                   genCalls, responses, logged, failedAt, genState, produced, delivered>>

\* route.ts 44-53 with the rejection of the search caught on the spot: the
\* error is logged and the handler goes on without results
RetrieveThrowContinues ==
    /\ pc = "retrieve"
    /\ searches' = Append(searches, [sort |-> queryEmbedding, limit |-> Limit])
    /\ \E e \in StoreErrors :
        /\ failedAt' = "retrieve"
        /\ logged' = Append(logged, e)
    /\ pc' = "assemble"
    /\ UNCHANGED <<otherVars, body, messages, collection, connected, userQuery, queryEmbedding,
                   searchResults, docContext, systemPrompt, embedCalls,
                   genCalls, responses, genState, produced, delivered>>

\* route.ts 44-53: the search rejects
RetrieveThrow ==
    /\ pc = "retrieve"
    /\ searches' = Append(searches, [sort |-> queryEmbedding, limit |-> Limit])
    /\ \E e \in StoreErrors : Catch("retrieve", e)
    /\ UNCHANGED <<otherVars, body, messages, collection, connected, userQuery, queryEmbedding,
                   searchResults, docContext, systemPrompt, embedCalls,
                   genCalls, genState, produced, delivered>>

\* route.ts 61 with an empty result treated as an error
AssembleRejectEmpty ==
    /\ pc = "assemble"
    /\ IF searchResults = <<>>
       THEN /\ Catch("assemble", "Error: no context found")
            /\ UNCHANGED docContext
       ELSE /\ docContext' = Join(DocTexts(searchResults), <<"\n", "\n">>)
            /\ pc' = "instruct"
            /\ UNCHANGED <<responses, logged, failedAt>>
    /\ UNCHANGED <<otherVars, body, messages, collection, connected, userQuery, queryEmbedding,
                   searchResults, systemPrompt, embedCalls, searches,
                   genCalls, genState, produced, delivered>>

\* route.ts 61 with .join("\n"): one line break between the texts
AssembleSingleNewline ==
    /\ pc = "assemble"
    /\ docContext' = Join(DocTexts(searchResults), <<"\n">>)
    /\ pc' = "instruct"
    /\ UNCHANGED <<otherVars, body, messages, collection, connected, userQuery, queryEmbedding,
                   searchResults, systemPrompt, embedCalls, searches,
                   genCalls, responses, logged, failedAt, genState, produced, delivered>>

\* route.ts 61
Assemble ==
    /\ pc = "assemble"
    /\ docContext' = Join(DocTexts(searchResults), <<"\n", "\n">>)
    /\ pc' = "instruct"
    /\ UNCHANGED <<otherVars, body, messages, collection, connected, userQuery, queryEmbedding,
                   searchResults, systemPrompt, embedCalls, searches,
                   genCalls, responses, logged, failedAt, genState, produced, delivered>>

\* route.ts 64-81
Instruct ==
    /\ pc = "instruct"
    /\ systemPrompt' = PromptHead \o docContext \o PromptTail
    /\ pc' = "generate"
    /\ UNCHANGED <<otherVars, body, messages, collection, connected, userQuery, queryEmbedding,
                   searchResults, docContext, embedCalls, searches,
                   genCalls, responses, logged, failedAt, genState, produced, delivered>>

\* route.ts 84-90 with the whole answer awaited before the response is built
GenerateBuffered ==
    /\ pc = "generate"
    /\ genCalls' = Append(genCalls, [model |-> "gpt-4", system |-> systemPrompt,
                                     messages |-> Len(messages)])
    /\ genState' = "done"
    /\ \E n \in 0..MaxTokens :
        /\ produced' = n
        /\ delivered' = n
    /\ responses' = Append(responses, StreamResponse)
    /\ pc' = "returned"
    /\ UNCHANGED <<otherVars, body, messages, collection, connected, userQuery, queryEmbedding,
                   searchResults, docContext, systemPrompt, embedCalls, searches,
                   logged, failedAt>>

\* route.ts 84-90: streamText starts the generation and the handler returns its
\* text stream without awaiting it
GenerateOk ==
    /\ pc = "generate"
    /\ genCalls' = Append(genCalls, [model |-> "gpt-4", system |-> systemPrompt,
                                     messages |-> Len(messages)])
    /\ genState' = "running"
    /\ responses' = Append(responses, StreamResponse)
    /\ pc' = "returned"
    /\ UNCHANGED <<otherVars, body, messages, collection, connected, userQuery, queryEmbedding,
                   searchResults, docContext, systemPrompt, embedCalls, searches,
                   logged, failedAt, produced, delivered>>

\* route.ts 87: convertToModelMessages(messages) throws before streamText is called
GenerateThrow ==
    /\ pc = "generate"
    /\ \E e \in ConvertErrors : Catch("generate", e)
    /\ UNCHANGED <<otherVars, body, messages, collection, connected, userQuery, queryEmbedding,
                   searchResults, docContext, systemPrompt, embedCalls, searches,
                   genCalls, genState, produced, delivered>>

\* The generation provider produces a token; the text stream of the response
\* passes it on at once.
GenToken ==
    /\ genState = "running"
    /\ produced < MaxTokens
    /\ produced' = produced + 1
    /\ delivered' = IF connected THEN delivered + 1 ELSE delivered
    /\ UNCHANGED <<otherVars, body, messages, collection, connected, pc, userQuery, queryEmbedding,
                   searchResults, docContext, systemPrompt, embedCalls, searches,
                   genCalls, responses, logged, failedAt, genState>>

\* The generation completes and the response body ends.
GenFinish ==
    /\ genState = "running"
    /\ genState' = "done"
    /\ UNCHANGED <<otherVars, body, messages, collection, connected, pc, userQuery, queryEmbedding,
                   searchResults, docContext, systemPrompt, embedCalls, searches,
                   genCalls, responses, logged, failedAt, produced, delivered>>

\* The generation provider fails after the handler has returned: nothing of
\* route.ts runs any more, the response that was returned stays as it is.
GenFail ==
    /\ genState = "running"
    /\ genState' = "failed"
    /\ failedAt' = "generate"
    /\ UNCHANGED <<otherVars, body, messages, collection, connected, pc, userQuery, queryEmbedding,
                   searchResults, docContext, systemPrompt, embedCalls, searches,
                   genCalls, responses, logged, produced, delivered>>

\* The client goes away while the answer is streaming.  route.ts never reads
\* req.signal and hands streamText no abortSignal.
Disconnect ==
    /\ genState = "running"
    /\ connected
    /\ connected' = FALSE
    /\ UNCHANGED <<otherVars, body, messages, collection, pc, userQuery, queryEmbedding,
                   searchResults, docContext, systemPrompt, embedCalls, searches,
                   genCalls, responses, logged, failedAt, genState, produced, delivered>>

Next ==
    \/ ParseOk \/ ParseThrow
    \/ ExtractOk \/ ExtractThrow
    \/ EmbedOk \/ EmbedThrow
    \/ RetrieveOk \/ RetrieveThrow
    \/ Assemble
    \/ Instruct
    \/ GenerateOk \/ GenerateThrow
    \/ GenToken \/ GenFinish \/ GenFail
    \/ Disconnect

Spec == Init /\ [][Next]_vars

(***************************************************************************)
(* Message resolution on its own: one message of any of the shapes, and    *)
(* the extraction step of the handler applied to it.                       *)
(***************************************************************************)
ResolveInit ==
    /\ body = "ok"
    /\ messages \in {<<m>> : m \in ShapedMessages(CutLen, CutParts)}
    /\ collection = <<>>
    /\ connected = TRUE
    /\ pc = "extract"
    /\ userQuery = <<>>
    /\ queryEmbedding = NoEmbedding
    /\ searchResults = <<>>
    /\ docContext = <<>>
    /\ systemPrompt = <<>>
    /\ embedCalls = <<>>
    /\ searches = <<>>
    /\ genCalls = <<>>
    /\ responses = <<>>
    /\ logged = <<>>
    /\ failedAt = "none"
    /\ genState = "none"
    /\ produced = 0
    /\ delivered = 0
    /\ SeedIdle
    /\ ScrapeIdle
    /\ PeerIdle
    /\ ToolsIdle

ResolveNext == ExtractOk

ResolveSpec == ResolveInit /\ [][ResolveNext]_vars

(***************************************************************************)
(* What the specification says of a message, stated without the handler's  *)
(* helpers.                                                                *)
(***************************************************************************)
\* The texts of the parts of type "text", in order, one after the other.
RECURSIVE ConcatText(_)
ConcatText(parts) ==
    IF parts = <<>> THEN <<>>
    ELSE (IF Head(parts).type = "text" THEN Head(parts).text ELSE <<>>)
            \o ConcatText(Tail(parts))

\* The logical text of a message: its content string, or its text parts in order.
LogicalText(m) == IF m.hasParts THEN ConcatText(m.parts) ELSE m.content

UserIndexes(msgs) == {i \in 1..Len(msgs) : msgs[i].role = "user"}

LastUserIndex(msgs) ==
    CHOOSE i \in UserIndexes(msgs) : \A j \in UserIndexes(msgs) : j <= i

\* No text is resolvable: no message at all, or a last message with neither
\* a text part nor a non-empty content string.
NoTextResolvable(msgs) ==
    \/ msgs = <<>>
    \/ LET m == msgs[Len(msgs)]
       IN  /\ \A i \in 1..Len(m.parts) : m.parts[i].type # "text"
           /\ m.content = <<>>

Extracted == pc \notin {"parse", "extract"} /\ failedAt \notin {"parse", "extract"}

(***************************************************************************)
(* The claims.                                                             *)
(***************************************************************************)

\* C1: a failure at any step of the pipeline (parse/extract, embed, retrieve,
\* assemble, instruct, generate) gives the caller exactly one response, the
\* generic 500 with body {"error":"Internal server error"}, and never a 200.
FailureYieldsGeneric500 ==
    failedAt # "none" => responses = <<ErrorResponse>>

\* C2: the text the handler embeds is the text of the most recent message whose
\* role is "user", also when a message of another role follows it.
EmbedsLastUserMessage ==
    (embedCalls # <<>> /\ UserIndexes(messages) # {})
        => embedCalls[1] = LogicalText(messages[LastUserIndex(messages)])

\* C3: a structured message whose text parts cut a text S in any way, with
\* parts of other types anywhere between them, resolves to S, the same query a
\* flat message with content S resolves to: text parts keep their order and
\* other parts contribute nothing.
MessageShapeEquivalence ==
    pc = "embed" =>
        LET m == messages[Len(messages)]
            S == ConcatText(m.parts)
        IN  /\ m.hasParts =>
                /\ userQuery = S
                /\ userQuery = ExtractQuery(<<FlatMessage(m.role, S)>>)
            /\ ~m.hasParts /\ m.hasContent => userQuery = m.content

\* C3 witness: a text cut in two non-empty text parts around a part of another
\* type has been resolved to the two texts in order.
MessageShapeWitness ==
    /\ pc = "embed"
    /\ LET m == messages[Len(messages)]
       IN  /\ m.hasParts
           /\ Len(m.parts) = 3
           /\ m.parts[1] = TextPart(<<"a">>)
           /\ m.parts[2] = FilePart
           /\ m.parts[3] = TextPart(<<"b", "a">>)
           /\ userQuery = <<"a", "b", "a">>

\* C4: when no text is resolvable from the conversation the extracted query is
\* the empty string, extraction does not fail, and the handler goes on to the
\* Embed step, which is called with the empty string.
EmptyQueryContinues ==
    (body = "ok" /\ NoTextResolvable(messages) /\ pc \notin {"parse", "extract"})
        => /\ failedAt \notin {"parse", "extract"}
           /\ userQuery = <<>>
           /\ pc = "embed" \/ embedCalls = << <<>> >>

\* C4 witness: the embedding provider has been called with the empty string for
\* a last message that holds only a part of another type.
EmptyQueryWitness ==
    /\ messages # <<>>
    /\ messages[Len(messages)].hasParts
    /\ messages[Len(messages)].parts = <<FilePart>>
    /\ embedCalls = << <<>> >>
    /\ pc = "retrieve"

\* The search of the request has returned.
Retrieved == searches # <<>> /\ failedAt # "retrieve" /\ pc # "retrieve"

\* C5: when the search returns no records the grounding context is the empty
\* string and the handler still calls the generation step and returns the
\* streamed response; after an empty search the 500 path is taken only when
\* converting the messages for the generation call itself throws.
EmptyContextFallback ==
    (Retrieved /\ searchResults = <<>>) =>
        /\ pc \notin {"assemble"} => docContext = <<>>
        /\ failedAt \in {"none", "generate"}
        /\ pc = "returned" =>
            \/ /\ responses = <<StreamResponse>>
               /\ Len(genCalls) = 1
               /\ genCalls[1].system = PromptHead \o PromptTail
            \/ /\ genCalls = <<>>
               /\ genState = "none"
               /\ failedAt = "generate"

\* C5 witness: the answer is streaming for a search of an empty collection.
EmptyContextWitness ==
    /\ collection = <<>>
    /\ Retrieved
    /\ searchResults = <<>>
    /\ docContext = <<>>
    /\ responses = <<StreamResponse>>
    /\ genState = "running"

\* Where the text of the i-th result starts in the context, counted from 0.
RECURSIVE ContextOffset(_, _)
ContextOffset(results, i) ==
    IF i = 1 THEN 0
    ELSE ContextOffset(results, i - 1) + Len(results[i - 1].text) + 2

ContextLen(results) ==
    IF results = <<>> THEN 0
    ELSE ContextOffset(results, Len(results)) + Len(results[Len(results)].text)

\* C6: the grounding context in the system instruction is the texts of the
\* search results in the order the search returned them, each once, a blank
\* line ("\n\n") between two neighbours, and it stands between the
\* START CONTEXT and END CONTEXT delimiters.
ContextMatchesResults ==
    systemPrompt # <<>> =>
        LET n == Len(searchResults)
            h == Len(PromptHead)
        IN  /\ Len(systemPrompt) = h + ContextLen(searchResults) + Len(PromptTail)
            /\ SubSeq(systemPrompt, 1, h) = PromptHead
            /\ systemPrompt[h - 1] = "START CONTEXT"
            /\ SubSeq(systemPrompt, h + ContextLen(searchResults) + 1, Len(systemPrompt))
                    = PromptTail
            /\ systemPrompt[h + ContextLen(searchResults) + 2] = "END CONTEXT"
            /\ \A i \in 1..n :
                    SubSeq(systemPrompt,
                           h + ContextOffset(searchResults, i) + 1,
                           h + ContextOffset(searchResults, i) + Len(searchResults[i].text))
                        = searchResults[i].text
            /\ \A i \in 2..n :
                    /\ systemPrompt[h + ContextOffset(searchResults, i) - 1] = "\n"
                    /\ systemPrompt[h + ContextOffset(searchResults, i)] = "\n"
            /\ genCalls # <<>> => genCalls[1].system = systemPrompt

\* C6 witness: the generation was called with a context of five texts that the
\* search returned in another order than they were stored in.
ContextWitness ==
    /\ genCalls # <<>>
    /\ Len(searchResults) = 5
    /\ searchResults[1] = StoredRecord(4)
    /\ searchResults[2] = StoredRecord(2)
    /\ docContext = DocText(4) \o <<"\n", "\n">> \o DocText(2) \o <<"\n", "\n">>
                        \o DocText(3) \o <<"\n", "\n">> \o DocText(6) \o <<"\n", "\n">>
                        \o DocText(1)

\* C7: a request issues one vector search, with limit 5, never a second one,
\* so the grounding context is built from at most 5 stored records however
\* many records the collection holds.
OneSearchTopFive ==
    /\ Len(searches) <= 1
    /\ \A i \in 1..Len(searches) : searches[i].limit = 5
    /\ (Extracted /\ pc \notin {"embed", "retrieve"} /\ failedAt # "embed")
            => Len(searches) = 1
    /\ Len(searchResults) <= 5
    /\ Retrieved => Len(searchResults) = Min(5, Len(collection))
    /\ pc \in {"instruct", "generate", "returned"}
            => Len(docContext) = ContextLen(searchResults)

\* C7 witness: a collection of more than five records gave a context of five.
OneSearchWitness ==
    /\ Len(collection) > 5
    /\ Len(searches) = 1
    /\ Len(searchResults) = 5
    /\ pc = "returned"
    /\ docContext # <<>>

\* C8: a request makes one call to the embedding provider, whatever the number
\* of messages in the conversation, and never a second one.
OneEmbeddingPerRequest ==
    /\ Len(embedCalls) <= 1
    /\ (Extracted /\ pc # "embed") => Len(embedCalls) = 1

\* C8 witness: one embedding call was made for a conversation of several messages.
OneEmbeddingWitness ==
    /\ Len(messages) > 1
    /\ Len(embedCalls) = 1
    /\ pc = "returned"

\* C9: the handler returns the response when the generation has only been
\* started, and the first output unit reaches the caller while the generation
\* is still running: the answer is never awaited in full first.
StreamingStart ==
    [][/\ (responses' # responses /\ responses' = <<StreamResponse>>)
            => (genState' = "running" /\ produced' = 0)
       /\ (delivered = 0 /\ delivered' > 0)
            => (genState' = "running" /\ responses = <<StreamResponse>>)]_vars

\* C9 witness: the first token has been delivered and the generation still runs.
StreamingStartWitness ==
    /\ responses = <<StreamResponse>>
    /\ delivered = 1
    /\ produced = 1
    /\ genState = "running"

\* C10: once the client has disconnected while the generation is in flight the
\* generation does not go on (it produces no further token and does not run to
\* completion), and tokens already delivered and the completed search stay.
CancelledOnDisconnect ==
    [][(~connected /\ genState = "running")
            => /\ produced' = produced
               /\ genState' # "done"
               /\ delivered' = delivered
               /\ searches' = searches
               /\ searchResults' = searchResults]_vars

(***************************************************************************)
(* The seed script, src/scripts/clearDb.ts 28-223: run, createCollection   *)
(* and loadSampleData.  Every remote call is two steps, the call and its   *)
(* return; the script is suspended in between.                             *)
(***************************************************************************)
\* No request is being handled.
ChatIdle ==
    /\ body = "ok"
    /\ messages = <<>>
    /\ connected = TRUE
    /\ pc = "idle"
    /\ userQuery = <<>>
    /\ queryEmbedding = NoEmbedding
    /\ searchResults = <<>>
    /\ docContext = <<>>
    /\ systemPrompt = <<>>
    /\ embedCalls = <<>>
    /\ searches = <<>>
    /\ genCalls = <<>>
    /\ responses = <<>>
    /\ logged = <<>>
    /\ failedAt = "none"
    /\ genState = "none"
    /\ produced = 0
    /\ delivered = 0

\* The text of chunk k of the page of url u.
ChunkText(u, k) == DocText((u - 1) * MaxChunks + k)

\* splitter.splitText(content) for the page of url u
ChunksOf(u) == [k \in 1..pages[u] |-> ChunkText(u, k)]

\* A record left in the collection before the runs looked at.
OldRecord == [text |-> <<"o">>, vector |-> Embedding(<<"o">>)]

IsOldRecord(record) == record = OldRecord

AlreadyExistsErrors == {"Collection already exists"}
CreateErrors == {"DataAPIError: unauthorized", "DataAPIError: timeout"}
ScrapeErrors == {"TimeoutError: Navigation timeout"}
InsertErrors == {"DataAPIError: insert failed"}

\* error.message?.includes("already exists")
IncludesAlreadyExists(error) == error \in AlreadyExistsErrors

Call(op, u, k) == [op |-> op, url |-> u, chunk |-> k]

CallStarts(op, u, k) ==
    /\ events' = Append(events, [call |-> Call(op, u, k), phase |-> "start", error |-> ""])
    /\ inFlight' = inFlight \cup {Call(op, u, k)}

CallEnds(op, u, k, error) ==
    /\ events' = Append(events, [call |-> Call(op, u, k),
                                 phase |-> IF error = "" THEN "end" ELSE "error",
                                 error |-> error])
    /\ inFlight' = inFlight \ {Call(op, u, k)}

SeedInit ==
    /\ ChatIdle
    /\ ScrapeIdle
    /\ PeerIdle
    /\ ToolsIdle
    /\ exists \in BOOLEAN
    /\ collection \in (IF exists THEN {<<>>, <<OldRecord>>} ELSE {<<>>})
    /\ pages \in [1..MaxUrls -> 0..MaxChunks]
    /\ seedPc = "idle"
    /\ urlIdx = 0
    /\ chunks = <<>>
    /\ chunkIdx = 0
    /\ vector = NoEmbedding
    /\ inFlight = {}
    /\ events = <<>>
    /\ exits = <<>>
    /\ runs = 0

\* clearDb.ts 217-220: the catch block of run
RunCatch ==
    /\ exits' = Append(exits, 1)
    /\ seedPc' = "exited"

\* clearDb.ts 223: run() of a new process
SeedStart ==
    /\ seedPc \in {"idle", "exited"}
    /\ runs < MaxRuns
    /\ runs' = runs + 1
    /\ seedPc' = "create"
    /\ urlIdx' = 0
    /\ chunks' = <<>>
    /\ chunkIdx' = 0
    /\ vector' = NoEmbedding
    /\ events' = <<>>
    /\ inFlight' = {}
    /\ UNCHANGED <<chatVars, scrapeVars, peer, toolVars, collection, exists, pages, exits>>

\* clearDb.ts 96: db.createCollection is called
CreateCall ==
    /\ seedPc = "create"
    /\ CallStarts("createCollection", 0, 0)
    /\ seedPc' = "create.await"
    /\ UNCHANGED <<chatVars, scrapeVars, peer, toolVars, collection, exists, pages, urlIdx, chunks, chunkIdx,
                   vector, exits, runs>>

\* clearDb.ts 96-102, 114-117: the collection is created, or the store accepts
\* the repeated creation; loadSampleData starts
CreateOk ==
    /\ seedPc = "create.await"
    /\ CallEnds("createCollection", 0, 0, "")
    /\ exists' = TRUE
    /\ collection' = IF exists THEN collection ELSE <<>>
    /\ urlIdx' = 1
    /\ seedPc' = "scrape"
    /\ UNCHANGED <<chatVars, scrapeVars, peer, toolVars, pages, chunks, chunkIdx, vector, exits, runs>>

\* clearDb.ts 103-108 with the already-exists error thrown on like any other
CreateExistsRethrown ==
    /\ seedPc = "create.await"
    /\ exists
    /\ \E e \in AlreadyExistsErrors :
        /\ CallEnds("createCollection", 0, 0, e)
        /\ RunCatch
    /\ UNCHANGED <<chatVars, scrapeVars, peer, toolVars, collection, exists, pages, urlIdx, chunks, chunkIdx,
                   vector, runs>>

\* clearDb.ts 103-105, 114-117: the store reports that the collection already
\* exists; the error is swallowed and loadSampleData starts
CreateExists ==
    /\ seedPc = "create.await"
    /\ exists
    /\ \E e \in AlreadyExistsErrors :
        /\ IncludesAlreadyExists(e)
        /\ CallEnds("createCollection", 0, 0, e)
    /\ urlIdx' = 1
    /\ seedPc' = "scrape"
    /\ UNCHANGED <<chatVars, scrapeVars, peer, toolVars, collection, exists, pages, chunks, chunkIdx, vector,
                   exits, runs>>

\* clearDb.ts 103-108 with every creation error swallowed
CreateThrowSwallowed ==
    /\ seedPc = "create.await"
    /\ \E e \in CreateErrors :
        /\ CallEnds("createCollection", 0, 0, e)
    /\ urlIdx' = 1
    /\ seedPc' = "scrape"
    /\ UNCHANGED <<chatVars, scrapeVars, peer, toolVars, collection, exists, pages, chunks, chunkIdx, vector,
                   exits, runs>>

\* clearDb.ts 106-108, 217-220: any other creation error is thrown on and run exits 1
CreateThrow ==
    /\ seedPc = "create.await"
    /\ \E e \in CreateErrors :
        /\ ~IncludesAlreadyExists(e)
        /\ CallEnds("createCollection", 0, 0, e)
        /\ RunCatch
    /\ UNCHANGED <<chatVars, scrapeVars, peer, toolVars, collection, exists, pages, urlIdx, chunks, chunkIdx,
                   vector, runs>>

\* clearDb.ts 117-119: scrapePage(url) loads the page of the next url
ScrapeCall ==
    /\ seedPc = "scrape"
    /\ urlIdx <= MaxUrls
    /\ CallStarts("scrape", urlIdx, 0)
    /\ seedPc' = "scrape.await"
    /\ UNCHANGED <<chatVars, scrapeVars, peer, toolVars, collection, exists, pages, urlIdx, chunks, chunkIdx,
                   vector, exits, runs>>

\* clearDb.ts 119-124: the page is loaded and split; the inner loop starts
ScrapeOk ==
    /\ seedPc = "scrape.await"
    /\ CallEnds("scrape", urlIdx, 0, "")
    /\ chunks' = ChunksOf(urlIdx)
    /\ IF ChunksOf(urlIdx) = <<>>
       THEN /\ urlIdx' = urlIdx + 1
            /\ chunkIdx' = 0
            /\ seedPc' = "scrape"
       ELSE /\ urlIdx' = urlIdx
            /\ chunkIdx' = 1
            /\ seedPc' = "embed"
    /\ UNCHANGED <<chatVars, scrapeVars, peer, toolVars, collection, exists, pages, vector, exits, runs>>

\* clearDb.ts 119 with the failure of one page caught and the loop continued
ScrapeThrowSkipped ==
    /\ seedPc = "scrape.await"
    /\ \E e \in ScrapeErrors :
        /\ CallEnds("scrape", urlIdx, 0, e)
    /\ urlIdx' = urlIdx + 1
    /\ seedPc' = "scrape"
    /\ UNCHANGED <<chatVars, scrapeVars, peer, toolVars, collection, exists, pages, chunks, chunkIdx, vector,
                   exits, runs>>

\* clearDb.ts 119, 217-220: the page load fails and run exits 1
ScrapeThrow ==
    /\ seedPc = "scrape.await"
    /\ \E e \in ScrapeErrors :
        /\ CallEnds("scrape", urlIdx, 0, e)
        /\ RunCatch
    /\ UNCHANGED <<chatVars, scrapeVars, peer, toolVars, collection, exists, pages, urlIdx, chunks, chunkIdx,
                   vector, runs>>

\* clearDb.ts 125-129: openai.embeddings.create is called for the chunk
SeedEmbedCall ==
    /\ seedPc = "embed"
    /\ CallStarts("embed", urlIdx, chunkIdx)
    /\ seedPc' = "embed.await"
    /\ UNCHANGED <<chatVars, scrapeVars, peer, toolVars, collection, exists, pages, urlIdx, chunks, chunkIdx,
                   vector, exits, runs>>

\* clearDb.ts 125-131 with the chunks embedded by the larger model
SeedEmbedLargeModel ==
    /\ seedPc = "embed.await"
    /\ CallEnds("embed", urlIdx, chunkIdx, "")
    /\ vector' = [Embedding(chunks[chunkIdx]) EXCEPT !.model = "text-embedding-3-large"]
    /\ seedPc' = "insert"
    /\ UNCHANGED <<chatVars, scrapeVars, peer, toolVars, collection, exists, pages, urlIdx, chunks, chunkIdx,
                   exits, runs>>

\* clearDb.ts 125-131: the embedding arrives
SeedEmbedOk ==
    /\ seedPc = "embed.await"
    /\ CallEnds("embed", urlIdx, chunkIdx, "")
    /\ vector' = Embedding(chunks[chunkIdx])
    /\ seedPc' = "insert"
    /\ UNCHANGED <<chatVars, scrapeVars, peer, toolVars, collection, exists, pages, urlIdx, chunks, chunkIdx,
                   exits, runs>>

\* clearDb.ts 125-129, 217-220: the embedding call fails and run exits 1
SeedEmbedThrow ==
    /\ seedPc = "embed.await"
    /\ \E e \in ProviderErrors :
        /\ CallEnds("embed", urlIdx, chunkIdx, e)
        /\ RunCatch
    /\ UNCHANGED <<chatVars, scrapeVars, peer, toolVars, collection, exists, pages, urlIdx, chunks, chunkIdx,
                   vector, runs>>

\* clearDb.ts 132-135 with the insert not awaited: the loop goes on at once
InsertCallNotAwaited ==
    /\ seedPc = "insert"
    /\ events' = Append(events, [call |-> Call("insert", urlIdx, chunkIdx),
                                 phase |-> "start", error |-> ""])
    /\ inFlight' = inFlight \cup {Call("insert", urlIdx, chunkIdx)}
    /\ collection' = Append(collection, [text |-> chunks[chunkIdx], vector |-> vector])
    /\ IF chunkIdx < Len(chunks)
       THEN /\ chunkIdx' = chunkIdx + 1
            /\ urlIdx' = urlIdx
            /\ seedPc' = "embed"
       ELSE /\ chunkIdx' = chunkIdx
            /\ urlIdx' = urlIdx + 1
            /\ seedPc' = "scrape"
    /\ UNCHANGED <<chatVars, scrapeVars, peer, toolVars, exists, pages, chunks, vector, exits, runs>>

\* clearDb.ts 132-135: collection.insertOne is called for the chunk
InsertCall ==
    /\ seedPc = "insert"
    /\ CallStarts("insert", urlIdx, chunkIdx)
    /\ seedPc' = "insert.await"
    /\ UNCHANGED <<chatVars, scrapeVars, peer, toolVars, collection, exists, pages, urlIdx, chunks, chunkIdx,
                   vector, exits, runs>>

\* clearDb.ts 132-135 as an upsert keyed by the text of the chunk
InsertUpsert ==
    /\ seedPc = "insert.await"
    /\ CallEnds("insert", urlIdx, chunkIdx, "")
    /\ collection' =
            IF \E i \in 1..Len(collection) : collection[i].text = chunks[chunkIdx]
            THEN collection
            ELSE Append(collection, [text |-> chunks[chunkIdx], vector |-> vector])
    /\ IF chunkIdx < Len(chunks)
       THEN /\ chunkIdx' = chunkIdx + 1
            /\ urlIdx' = urlIdx
            /\ seedPc' = "embed"
       ELSE /\ chunkIdx' = chunkIdx
            /\ urlIdx' = urlIdx + 1
            /\ seedPc' = "scrape"
    /\ UNCHANGED <<chatVars, scrapeVars, peer, toolVars, exists, pages, chunks, vector, exits, runs>>

\* clearDb.ts 132-142 with the inner loop left after the first chunk
InsertFirstChunkOnly ==
    /\ seedPc = "insert.await"
    /\ CallEnds("insert", urlIdx, chunkIdx, "")
    /\ collection' = Append(collection, [text |-> chunks[chunkIdx], vector |-> vector])
    /\ chunkIdx' = chunkIdx
    /\ urlIdx' = urlIdx + 1
    /\ seedPc' = "scrape"
    /\ UNCHANGED <<chatVars, scrapeVars, peer, toolVars, exists, pages, chunks, vector, exits, runs>>

\* clearDb.ts 132-144: the record is stored; next chunk, or next url
InsertOk ==
    /\ seedPc = "insert.await"
    /\ CallEnds("insert", urlIdx, chunkIdx, "")
    /\ collection' = Append(collection, [text |-> chunks[chunkIdx], vector |-> vector])
    /\ IF chunkIdx < Len(chunks)
       THEN /\ chunkIdx' = chunkIdx + 1
            /\ urlIdx' = urlIdx
            /\ seedPc' = "embed"
       ELSE /\ chunkIdx' = chunkIdx
            /\ urlIdx' = urlIdx + 1
            /\ seedPc' = "scrape"
    /\ UNCHANGED <<chatVars, scrapeVars, peer, toolVars, exists, pages, chunks, vector, exits, runs>>

\* clearDb.ts 132-135, 217-220 with the records of the run taken back when an
\* insert fails
InsertThrowRollback ==
    /\ seedPc = "insert.await"
    /\ \E e \in InsertErrors : CallEnds("insert", urlIdx, chunkIdx, e)
    /\ collection' = SelectSeq(collection, IsOldRecord)
    /\ RunCatch
    /\ UNCHANGED <<chatVars, scrapeVars, peer, toolVars, exists, pages, urlIdx, chunks, chunkIdx,
                   vector, runs>>

\* clearDb.ts 132-135, 217-220: the insert fails and run exits 1
InsertThrow ==
    /\ seedPc = "insert.await"
    /\ \E e \in InsertErrors :
        /\ CallEnds("insert", urlIdx, chunkIdx, e)
        /\ RunCatch
    /\ UNCHANGED <<chatVars, scrapeVars, peer, toolVars, collection, exists, pages, urlIdx, chunks, chunkIdx,
                   vector, runs>>

\* clearDb.ts 144-147, 215-216: the outer loop is over and run exits 0
SeedFinish ==
    /\ seedPc = "scrape"
    /\ urlIdx > MaxUrls
    /\ exits' = Append(exits, 0)
    /\ seedPc' = "exited"
    /\ UNCHANGED <<chatVars, scrapeVars, peer, toolVars, collection, exists, pages, urlIdx, chunks, chunkIdx,
                   vector, inFlight, events, runs>>

SeedNext ==
    \/ SeedStart
    \/ CreateCall \/ CreateOk \/ CreateExists \/ CreateThrow
    \/ ScrapeCall \/ ScrapeOk \/ ScrapeThrow
    \/ SeedEmbedCall \/ SeedEmbedOk \/ SeedEmbedThrow
    \/ InsertCall \/ InsertOk \/ InsertThrow
    \/ SeedFinish

SeedSpec == SeedInit /\ [][SeedNext]_vars

(***************************************************************************)
(* What the specification says of a seed run, stated over the calls the    *)
(* run has made.                                                           *)
(***************************************************************************)
\* The calls of a complete run from chunk k of url u on, in program order.
RECURSIVE CallsFrom(_, _)
CallsFrom(u, k) ==
    IF u > MaxUrls THEN <<>>
    ELSE IF k = 0 THEN <<Call("scrape", u, 0)>> \o CallsFrom(u, 1)
    ELSE IF k > pages[u] THEN CallsFrom(u + 1, 0)
    ELSE <<Call("embed", u, k), Call("insert", u, k)>> \o CallsFrom(u, k + 1)

ExpectedCalls == <<Call("createCollection", 0, 0)>> \o CallsFrom(1, 0)

IsStart(ev) == ev.phase = "start"

\* The calls the current run has started, in order.
StartedCalls == [i \in 1..Len(SelectSeq(events, IsStart)) |->
                    SelectSeq(events, IsStart)[i].call]

IsPrefix(s, t) == Len(s) <= Len(t) /\ SubSeq(t, 1, Len(s)) = s

\* An error that createCollection does not swallow.
Unhandled(ev) ==
    /\ ev.phase = "error"
    /\ ~(ev.call.op = "createCollection" /\ ev.error \in AlreadyExistsErrors)

LastExit == IF exits = <<>> THEN -1 ELSE exits[Len(exits)]

RunOver == seedPc = "exited" /\ Len(exits) = runs

Last(s) == s[Len(s)]

RecordCount(text) == Cardinality({i \in 1..Len(collection) : collection[i].text = text})

StartCount(c) ==
    Cardinality({i \in 1..Len(events) : events[i].phase = "start" /\ events[i].call = c})

\* C12: when createCollection finds the collection existing, whether the store
\* accepts the repeated creation or answers "already exists", no error comes
\* out of it: the run goes on to ingestion, nothing exits, and the collection
\* and its records are as before.
IdempotentCreate ==
    [][(/\ seedPc = "create.await"
        /\ exists
        /\ events' # events
        /\ Last(events').error \notin CreateErrors)
            => /\ seedPc' = "scrape"
               /\ urlIdx' = 1
               /\ exits' = exits
               /\ exists'
               /\ collection' = collection]_vars

\* C12 witness: a second run was told the collection already exists and went
\* on to ingest and to exit 0.
IdempotentCreateWitness ==
    /\ runs = 2
    /\ exits = <<0, 0>>
    /\ events[2].error \in AlreadyExistsErrors
    /\ Len(collection) > 1

\* C13: a createCollection failure other than "already exists" is thrown on:
\* the run makes no scrape, embedding or insert call and exits with code 1.
CreateFailurePropagates ==
    (Len(events) >= 2 /\ events[2].error \in CreateErrors)
        => /\ Len(events) = 2
           /\ RunOver
           /\ LastExit = 1

\* C13 witness: a run ended with code 1 on a creation error.
CreateFailureWitness ==
    /\ Len(events) = 2
    /\ events[2].call.op = "createCollection"
    /\ events[2].error = "DataAPIError: unauthorized"
    /\ exits = <<1>>

\* C14: a run calls createCollection before it fetches anything, then runs
\* the pipeline of every url in list order; it exits 0 only when every chunk
\* of every url has been embedded and inserted, and with 1 on an error that
\* is not handled.
SeedRunsWholePipeline ==
    /\ events # <<>> => events[1].call = Call("createCollection", 0, 0)
    /\ IsPrefix(StartedCalls, ExpectedCalls)
    /\ (RunOver /\ LastExit = 0)
            => /\ StartedCalls = ExpectedCalls
               /\ \A i \in 1..Len(events) : ~Unhandled(events[i])
               /\ \A u \in 1..MaxUrls : \A k \in 1..pages[u] :
                    \E i \in 1..Len(events) :
                        /\ events[i].call = Call("insert", u, k)
                        /\ events[i].phase = "end"
    /\ (RunOver /\ LastExit = 1) => Unhandled(Last(events))
    /\ (events # <<>> /\ Unhandled(Last(events))) => (RunOver /\ LastExit = 1)

\* C14 witness: a run over pages that all split into several chunks exited 0.
SeedRunsWitness ==
    /\ RunOver
    /\ LastExit = 0
    /\ \A u \in 1..MaxUrls : pages[u] = MaxChunks
    /\ StartedCalls = ExpectedCalls

\* C15: at most one remote call of a run is in flight at any moment: a call
\* is started only when the one before has returned, so the insert of a chunk
\* ends before the embedding of the next chunk starts and the last insert of a
\* page before the next page is fetched; the records of the run are stored in
\* (url, chunk) order.
IngestionSequential ==
    /\ Cardinality(inFlight) <= 1
    /\ \A i \in 1..Len(events) :
        IF i % 2 = 1
        THEN /\ events[i].phase = "start"
             /\ i = Len(events) <=> inFlight = {events[i].call}
        ELSE /\ events[i].phase # "start"
             /\ events[i].call = events[i - 1].call
    /\ \A i, j \in 1..Len(events) :
        (/\ i < j
         /\ events[i].phase = "start" /\ events[j].phase = "start"
         /\ events[i].call.op = "insert" /\ events[j].call.op = "insert")
            => \/ events[i].call.url < events[j].call.url
               \/ /\ events[i].call.url = events[j].call.url
                  /\ events[i].call.chunk < events[j].call.chunk
    /\ LET done == {i \in 1..Len(events) :
                        events[i].call.op = "insert" /\ events[i].phase = "end"}
           n == Cardinality(done)
       IN  /\ n <= Len(collection)
           /\ \A i \in done :
                LET rank == Cardinality({j \in done : j <= i})
                IN  collection[Len(collection) - n + rank].text
                        = ChunkText(events[i].call.url, events[i].call.chunk)

\* C15 witness: the embedding of the second chunk of a page is in flight and
\* the record of the first chunk is stored.
IngestionSequentialWitness ==
    /\ inFlight = {Call("embed", 1, 2)}
    /\ collection # <<>>
    /\ Last(collection).text = ChunkText(1, 1)

NoDeduplication ==
    (RunOver /\ \A r \in 1..Len(exits) : exits[r] = 0)
        => \A u \in 1..MaxUrls : \A k \in 1..pages[u] :
                /\ RecordCount(ChunkText(u, k)) = Len(exits)
                /\ StartCount(Call("embed", u, k)) = 1
                /\ StartCount(Call("insert", u, k)) = 1

\* C17 witness: two successful runs left two records of the same chunk.
NoDeduplicationWitness ==
    /\ exits = <<0, 0>>
    /\ pages[1] = MaxChunks
    /\ RecordCount(ChunkText(1, 1)) = 2
    /\ RecordCount(ChunkText(1, MaxChunks)) = 2

\* C18: a throttling error of the embedding provider is retried, a bounded
\* number of times with backoff, on the query path and on the ingestion path:
\* a request or run that gave up on such an error had called the provider more
\* than once for the same text; any other error ends it after one call.
TransientErrorRetried ==
    /\ (failedAt = "embed" /\ logged = <<"RateLimitError: 429">>)
            => Len(embedCalls) > 1
    /\ (failedAt = "embed" /\ logged = <<"APIError: 500">>)
            => Len(embedCalls) = 1
    /\ (events # <<>> /\ Last(events).error = "RateLimitError: 429")
            => StartCount(Last(events).call) > 1

(***************************************************************************)
(* scrapePage, src/scripts/clearDb.ts 150-208: the function evaluated in   *)
(* the page and the clean-up of what it returns.                           *)
(*                                                                         *)
(* A document is, for every content selector, the first element the        *)
(* selector matches (if any) with its text, the text of the elements the   *)
(* function removes, and the text of the rest of the body.  A raw text is  *)
(* a sequence of tokens; the marker "[edit]" is one token.                 *)
(***************************************************************************)
MaxRaw == 5

\* clearDb.ts 174-183
contentSelectors ==
    <<"main", "article", "[role=main]", ".content", "#content", ".main-content",
      "#mw-content-text", ".article-body">>

NoElement == [found |-> FALSE, textContent |-> <<>>]

Element(text) == [found |-> TRUE, textContent |-> text]

\* The documents looked at: every selector matches nothing, an element
\* without text, or an element whose text names the selector.
Documents ==
    {[elements |-> [i \in 1..Len(contentSelectors) |->
                        IF kind[i] = "none" THEN NoElement
                        ELSE IF kind[i] = "empty" THEN Element(<<>>)
                        ELSE Element(<<contentSelectors[i]>>)],
      removable |-> nav,
      rest |-> rest] :
        kind \in [1..Len(contentSelectors) -> {"none", "empty", "text"}],
        nav \in {<<>>, <<"nav">>},
        rest \in {<<>>, <<"rest">>}}

\* clearDb.ts 169-171: el.remove() for every element of elementsToRemove
RemoveElements(doc) == [doc EXCEPT !.removable = <<>>]

RECURSIVE ElementTexts(_, _)
ElementTexts(doc, i) ==
    IF i > Len(doc.elements) THEN <<>>
    ELSE doc.elements[i].textContent \o ElementTexts(doc, i + 1)

\* document.body.textContent
BodyText(doc) == doc.removable \o ElementTexts(doc, 1) \o doc.rest

\* A selection that passes over a matched element without text.
SelectContentSkipEmpty(doc) ==
    LET matched == {i \in 1..Len(contentSelectors) :
                        doc.elements[i].found /\ doc.elements[i].textContent # <<>>}
    IN  IF matched = {} THEN BodyText(doc)
        ELSE doc.elements[CHOOSE i \in matched : \A j \in matched : i <= j].textContent

\* clearDb.ts 185-193: the loop over contentSelectors and the fallback
SelectContent(doc) ==
    LET matched == {i \in 1..Len(contentSelectors) : doc.elements[i].found}
    IN  IF matched = {} THEN BodyText(doc)
        ELSE doc.elements[CHOOSE i \in matched : \A j \in matched : i <= j].textContent

Whitespace == {" ", "\n"}

RawTokens == {"a", "<", ">", "[edit]"} \cup Whitespace

RawTexts == SeqsUpTo(RawTokens, MaxRaw)

\* What is left of a text after the end of the tag that was open at its start.
RECURSIVE AfterTag(_)
AfterTag(text) ==
    IF text = <<>> THEN <<>>
    ELSE IF Head(text) = ">" THEN Tail(text)
    ELSE AfterTag(Tail(text))

\* clearDb.ts 204: replace(/<[^>]*>?/gm, '')
RECURSIVE StripTags(_)
StripTags(text) ==
    IF text = <<>> THEN <<>>
    ELSE IF Head(text) = "<" THEN StripTags(AfterTag(Tail(text)))
    ELSE <<Head(text)>> \o StripTags(Tail(text))

RECURSIVE DropWhitespace(_)
DropWhitespace(text) ==
    IF text = <<>> THEN <<>>
    ELSE IF Head(text) \in Whitespace THEN DropWhitespace(Tail(text))
    ELSE text

\* clearDb.ts 205: replace(/\s+/g, ' ')
RECURSIVE CollapseWhitespace(_)
CollapseWhitespace(text) ==
    IF text = <<>> THEN <<>>
    ELSE IF Head(text) \in Whitespace
         THEN <<" ">> \o CollapseWhitespace(DropWhitespace(text))
    ELSE <<Head(text)>> \o CollapseWhitespace(Tail(text))

NotEditMarker(token) == token # "[edit]"

\* clearDb.ts 206: replace(/\[edit\]/g, '')
RemoveEditMarkers(text) == SelectSeq(text, NotEditMarker)

RECURSIVE DropTrailingWhitespace(_)
DropTrailingWhitespace(text) ==
    IF text = <<>> THEN <<>>
    ELSE IF text[Len(text)] \in Whitespace
         THEN DropTrailingWhitespace(SubSeq(text, 1, Len(text) - 1))
    ELSE text

\* clearDb.ts 207: trim()
Trim(text) == DropTrailingWhitespace(DropWhitespace(text))

\* clearDb.ts 203-207
CleanText(text) == Trim(RemoveEditMarkers(CollapseWhitespace(StripTags(text))))

\* What the chat handler, the seed script and the second request are while a
\* page is scraped on its own.
RestIdle ==
    /\ ChatIdle
    /\ SeedIdle
    /\ PeerIdle
    /\ collection = <<>>

ScrapeInit ==
    /\ RestIdle
    /\ ToolsIdle
    /\ page \in Documents
    /\ rawContent = <<>>
    /\ normalized = <<>>
    /\ scrapePc = "evaluate"

\* clearDb.ts 159-194, 200: page.evaluate and loader.scrape()
Evaluate ==
    /\ scrapePc = "evaluate"
    /\ page' = RemoveElements(page)
    /\ rawContent' = SelectContent(RemoveElements(page))
    /\ scrapePc' = "clean"
    /\ UNCHANGED <<chatVars, collection, seedVars, peer, toolVars, normalized>>

\* clearDb.ts 203-207: the clean-up and the return
Clean ==
    /\ scrapePc = "clean"
    /\ normalized' = CleanText(rawContent)
    /\ scrapePc' = "returned"
    /\ UNCHANGED <<chatVars, collection, seedVars, peer, toolVars, page, rawContent>>

ScrapeNext == Evaluate \/ Clean

ScrapeSpec == ScrapeInit /\ [][ScrapeNext]_vars

\* The clean-up on its own, for every raw text loader.scrape() may yield.
CleanInit ==
    /\ RestIdle
    /\ ToolsIdle
    /\ page = NoDocument
    /\ rawContent \in RawTexts
    /\ normalized = <<>>
    /\ scrapePc = "clean"

CleanNext == Clean

CleanSpec == CleanInit /\ [][CleanNext]_vars

\* The first selector, in list order, that matches an element of the document.
FirstMatch(doc) ==
    IF \E i \in 1..Len(contentSelectors) : doc.elements[i].found
    THEN CHOOSE i \in 1..Len(contentSelectors) :
            /\ doc.elements[i].found
            /\ \A j \in 1..(i - 1) : ~doc.elements[j].found
    ELSE 0

\* The first selector, in list order, whose match has text.
FirstWithText(doc) ==
    IF \E i \in 1..Len(contentSelectors) : doc.elements[i].textContent # <<>>
    THEN CHOOSE i \in 1..Len(contentSelectors) :
            /\ doc.elements[i].textContent # <<>>
            /\ \A j \in 1..(i - 1) : doc.elements[j].textContent = <<>>
    ELSE 0

Evaluated == scrapePc \in {"clean", "returned"}

\* C19, as stated: the selected content is the text of the first selector, in
\* priority order, whose match has text; a match without text is passed over,
\* and the text of the remaining body is taken only when no selector yields
\* text.
FirstNonEmptySelected ==
    Evaluated =>
        IF FirstWithText(page) # 0
        THEN rawContent = page.elements[FirstWithText(page)].textContent
        ELSE rawContent = BodyText(page)

\* C19, amended: the selected content is the text of the first selector, in
\* priority order, that matches an element, also when that text is empty; the
\* text of the remaining body is taken only when no selector matches.
FirstMatchSelected ==
    Evaluated =>
        /\ page.removable = <<>>
        /\ IF FirstMatch(page) # 0
           THEN rawContent = page.elements[FirstMatch(page)].textContent
           ELSE rawContent = BodyText(page)

\* C19 witness: main matches an element without text, article has text and
\* the body has more; nothing is selected.
FirstMatchWitness ==
    /\ Evaluated
    /\ page.elements[1] = Element(<<>>)
    /\ page.elements[2] = Element(<<"article">>)
    /\ page.rest # <<>>
    /\ rawContent = <<>>

HasTag(text) ==
    \E i, j \in 1..Len(text) : i < j /\ text[i] = "<" /\ text[j] = ">"

HasWhitespaceRun(text) ==
    \E i \in 1..(Len(text) - 1) : text[i] \in Whitespace /\ text[i + 1] \in Whitespace

\* C20: for every raw text the text scrapePage returns has no tag syntax, no
\* run of more than one whitespace character, with "[edit]" markers between
\* spaces in the input too, and no whitespace at its start or end.
NormalizedIsClean ==
    scrapePc = "returned" =>
        /\ ~HasTag(normalized)
        /\ ~HasWhitespaceRun(normalized)
        /\ normalized # <<>> =>
            /\ normalized[1] \notin Whitespace
            /\ normalized[Len(normalized)] \notin Whitespace

(***************************************************************************)
(* Two requests handled at the same time, src/app/api/chat/route.ts        *)
(* 14-98.  The handler is an async function: at every await another        *)
(* request may run.  The second request keeps its locals in peer; what     *)
(* both share is the module scope of route.ts 6-12 (the client handles)    *)
(* and the store.                                                          *)
(***************************************************************************)
\* The conversations of the two requests.
ShortConversations ==
    {<<>>} \cup {<<FlatMessage("user", s)>> : s \in Texts(MaxLen)}

ConcurrentInit ==
    /\ body \in {"invalid", "nomessages", "ok"}
    /\ messages \in (IF body = "ok" THEN ShortConversations ELSE {<<>>})
    /\ collection \in {Stored(0), Stored(MaxDocs)}
    /\ connected = TRUE
    /\ pc = "parse"
    /\ userQuery = <<>>
    /\ queryEmbedding = NoEmbedding
    /\ searchResults = <<>>
    /\ docContext = <<>>
    /\ systemPrompt = <<>>
    /\ embedCalls = <<>>
    /\ searches = <<>>
    /\ genCalls = <<>>
    /\ responses = <<>>
    /\ logged = <<>>
    /\ failedAt = "none"
    /\ genState = "none"
    /\ produced = 0
    /\ delivered = 0
    /\ SeedIdle
    /\ ScrapeIdle
    /\ peer \in {[NoRequest EXCEPT !.messages = m, !.pc = "extract"] :
                    m \in ShortConversations}
    /\ ToolsIdle

\* route.ts 26-34 of the second request, with userQuery a variable of the
\* module scope
PeerExtractShared ==
    /\ peer.pc = "extract"
    /\ userQuery' = ExtractQuery(peer.messages)
    /\ peer' = [peer EXCEPT !.userQuery = ExtractQuery(peer.messages), !.pc = "embed"]
    /\ UNCHANGED <<body, messages, connected, pc, queryEmbedding,
                   searchResults, docContext, systemPrompt, embedCalls, searches, genCalls,
                   responses, logged, failedAt, genState, produced, delivered,
                   collection, seedVars, scrapeVars, toolVars>>

\* route.ts 26-34 of the second request
PeerExtract ==
    /\ peer.pc = "extract"
    /\ peer' = [peer EXCEPT !.userQuery = ExtractQuery(peer.messages), !.pc = "embed"]
    /\ UNCHANGED <<chatVars, collection, seedVars, scrapeVars, toolVars>>

\* route.ts 37-41 of the second request
PeerEmbed ==
    /\ peer.pc = "embed"
    /\ peer' = [peer EXCEPT !.queryEmbedding = Embedding(peer.userQuery),
                            !.pc = "retrieve"]
    /\ UNCHANGED <<chatVars, collection, seedVars, scrapeVars, toolVars>>

\* route.ts 44-53 of the second request
PeerRetrieve ==
    /\ peer.pc = "retrieve"
    /\ peer' = [peer EXCEPT !.searchResults = Find(collection, peer.queryEmbedding, Limit),
                            !.pc = "assemble"]
    /\ UNCHANGED <<chatVars, collection, seedVars, scrapeVars, toolVars>>

\* route.ts 61 of the second request
PeerAssemble ==
    /\ peer.pc = "assemble"
    /\ peer' = [peer EXCEPT !.docContext = Join(DocTexts(peer.searchResults), <<"\n", "\n">>),
                            !.pc = "instruct"]
    /\ UNCHANGED <<chatVars, collection, seedVars, scrapeVars, toolVars>>

\* route.ts 64-81 of the second request
PeerInstruct ==
    /\ peer.pc = "instruct"
    /\ peer' = [peer EXCEPT !.systemPrompt = PromptHead \o peer.docContext \o PromptTail,
                            !.pc = "generate"]
    /\ UNCHANGED <<chatVars, collection, seedVars, scrapeVars, toolVars>>

\* route.ts 84-90 of the second request
PeerGenerate ==
    /\ peer.pc = "generate"
    /\ peer' = [peer EXCEPT !.response = "stream", !.pc = "returned"]
    /\ UNCHANGED <<chatVars, collection, seedVars, scrapeVars, toolVars>>

\* route.ts 91-97 of the second request: a remote call of it rejects
PeerThrow ==
    /\ peer.pc \in {"embed", "retrieve", "generate"}
    /\ peer' = [peer EXCEPT !.response = "error", !.pc = "returned"]
    /\ UNCHANGED <<chatVars, collection, seedVars, scrapeVars, toolVars>>

ConcurrentNext ==
    \/ Next
    \/ PeerExtract \/ PeerEmbed \/ PeerRetrieve \/ PeerAssemble \/ PeerInstruct
    \/ PeerGenerate \/ PeerThrow

ConcurrentSpec == ConcurrentInit /\ [][ConcurrentNext]_vars

\* How far a handler has come.
Rank(p) ==
    CASE p = "parse" -> 0
      [] p = "extract" -> 1
      [] p = "embed" -> 2
      [] p = "retrieve" -> 3
      [] p = "assemble" -> 4
      [] p = "instruct" -> 5
      [] p = "generate" -> 6
      [] OTHER -> 7

\* Both requests have passed the step of rank r and neither has failed.
BothPast(r) ==
    /\ body = "ok"
    /\ failedAt = "none"
    /\ peer.response # "error"
    /\ Rank(pc) > r
    /\ Rank(peer.pc) > r

\* The two requests came with the same conversation and have the same query,
\* context and outcome as far as both have come.
SameConversationSameResult ==
    peer.messages = messages =>
        /\ BothPast(1) => peer.userQuery = userQuery
        /\ BothPast(2) => peer.queryEmbedding = queryEmbedding
        /\ BothPast(3) => peer.searchResults = searchResults
        /\ BothPast(4) => peer.docContext = docContext
        /\ BothPast(5) => peer.systemPrompt = systemPrompt
        /\ BothPast(6) => (peer.response = "stream" /\ responses = <<StreamResponse>>)

\* C11: requests are handled without shared mutable state: a step of one
\* request changes nothing of the other, no step changes the content of the
\* store, and two requests with the same conversation get the same query,
\* context and outcome however their steps interleave.
StatelessUnderInterleaving ==
    /\ []SameConversationSameResult
    /\ [][/\ peer' # peer => UNCHANGED chatVars
          /\ chatVars' # chatVars => peer' = peer
          /\ collection' = collection]_vars

\* C11 witness: the two requests are both under way, each with its own query,
\* the second with its search results while the first waits for its own.
StatelessWitness ==
    /\ pc = "retrieve"
    /\ peer.pc = "assemble"
    /\ userQuery # <<>>
    /\ peer.userQuery # <<>>
    /\ peer.userQuery # userQuery
    /\ peer.searchResults # <<>>
    /\ embedCalls = <<userQuery>>

\* C27: the steps of a request run in the order Extract, Embed, Retrieve,
\* Assemble, Instruct, Generate: the search is started only with the embedding
\* an embedding call has returned, the generation call is made at most once
\* and only with the prompt built from a search that returned, and a request
\* whose embedding or search failed never calls the generation provider.
StepsInOrder ==
    /\ embedCalls # <<>> => Extracted
    /\ searches # <<>> =>
        /\ Len(embedCalls) = 1
        /\ failedAt # "embed"
        /\ queryEmbedding # NoEmbedding
        /\ searches[1].sort = queryEmbedding
    /\ (docContext # <<>> \/ systemPrompt # <<>>) => Retrieved
    /\ Len(genCalls) <= 1
    /\ genCalls # <<>> =>
        /\ Len(searches) = 1
        /\ Retrieved
        /\ systemPrompt # <<>>
        /\ genCalls[1].system = systemPrompt
    /\ failedAt \in {"parse", "extract", "embed", "retrieve"} =>
        /\ genCalls = <<>>
        /\ genState = "none"
        /\ systemPrompt = <<>>

\* C27 witness: the search of a request failed after its embedding call
\* returned; the request ended without a generation call.
StepsInOrderWitness ==
    /\ failedAt = "retrieve"
    /\ pc = "returned"
    /\ Len(embedCalls) = 1
    /\ Len(searches) = 1
    /\ genCalls = <<>>

(***************************************************************************)
(* The Bubble component, src/app/components/Bubble.tsx 7-24, next to the   *)
(* extraction of the handler: the two places that resolve the text of a    *)
(* message.                                                                *)
(***************************************************************************)
\* Messages of every shape: with or without a content string, with or
\* without a parts array.
AnyMessages ==
    {[role |-> r, hasContent |-> c.present, content |-> c.value,
      hasParts |-> p.present, parts |-> p.value] :
        r \in Roles,
        c \in {[present |-> FALSE, value |-> <<>>]}
                \cup {[present |-> TRUE, value |-> t] : t \in Texts(MaxLen)},
        p \in {[present |-> FALSE, value |-> <<>>]}
                \cup {[present |-> TRUE, value |-> q] : q \in SeqsUpTo(Parts(MaxLen), MaxParts)}}

\* Bubble.tsx 10-17: let text
BubbleText(message) ==
    IF message.hasContent THEN message.content
    ELSE IF message.hasParts
         THEN Join(PartTexts(SelectSeq(message.parts, IsTextPart)), <<>>)
         ELSE <<>>

BubbleInit ==
    /\ body = "ok"
    /\ messages \in {<<m>> : m \in AnyMessages}
    /\ collection = <<>>
    /\ connected = TRUE
    /\ pc = "extract"
    /\ userQuery = <<>>
    /\ queryEmbedding = NoEmbedding
    /\ searchResults = <<>>
    /\ docContext = <<>>
    /\ systemPrompt = <<>>
    /\ embedCalls = <<>>
    /\ searches = <<>>
    /\ genCalls = <<>>
    /\ responses = <<>>
    /\ logged = <<>>
    /\ failedAt = "none"
    /\ genState = "none"
    /\ produced = 0
    /\ delivered = 0
    /\ SeedIdle
    /\ ScrapeIdle
    /\ PeerIdle
    /\ ToolsIdle

\* Bubble.tsx 7-23: the component renders the last message
Render ==
    /\ ~bubble.rendered
    /\ messages # <<>>
    /\ bubble' = [rendered |-> TRUE, text |-> BubbleText(messages[Len(messages)])]
    /\ UNCHANGED <<chatVars, collection, seedVars, scrapeVars, peer,
                   counter, clearPc, clears, config>>

BubbleNext == ExtractOk \/ Render

BubbleSpec == BubbleInit /\ [][BubbleNext]_vars

\* C30: for every message, one with both a content string and a parts array
\* or with an empty parts array and a content string included, the text the
\* Bubble component shows is the query text the handler extracts from it.
ResolutionSitesAgree ==
    (bubble.rendered /\ pc = "embed") => bubble.text = userQuery

(***************************************************************************)
(* The count script, src/unnamed/part_003 14-37 (countDocs).  The store is *)
(* the number of documents of the collection; countDocuments(filter,       *)
(* upperBound) answers with the number, or rejects with "Too many          *)
(* documents to count" when there are more than upperBound.                *)
(***************************************************************************)
\* part_003 20: the upperBound given to countDocuments
CountCeiling == 1000

MaxAround == 8

\* The sizes of the collection looked at: few documents, and about the ceiling.
StoreSizes ==
    (0..MaxAround) \cup ((CountCeiling - MaxAround)..(CountCeiling + MaxAround))

TooManyErrors == {"Too many documents to count"}

CountErrors == {"DataAPIError: unauthorized", "DataAPIError: timeout"}

\* part_003 23: error.message?.includes("Too many")
IncludesTooMany(error) == error \in TooManyErrors

ExactLine(n) == [line |-> "Documents in collection: count", count |-> n]

CeilingLine == [line |-> "Documents in collection: 1000+ (still loading...)", count |-> 1000]

CountInit ==
    /\ RestIdle
    /\ ScrapeIdle
    /\ bubble = NoBubble
    /\ clearPc = "idle"
    /\ clears = <<>>
    /\ config = NoConfig
    /\ counter \in {[NoCount EXCEPT !.pc = "collection", !.docs = n] : n \in StoreSizes}

\* part_003 16: db.collection(ASTRA_DB_COLLECTION) resolves
CountCollectionOk ==
    /\ counter.pc = "collection"
    /\ counter' = [counter EXCEPT !.pc = "count"]
    /\ UNCHANGED <<chatVars, collection, seedVars, scrapeVars, peer,
                   bubble, clearPc, clears, config>>

\* part_003 16, 31-34: db.collection rejects; the outer catch exits 1
CountCollectionThrow ==
    /\ counter.pc = "collection"
    /\ \E e \in CountErrors :
        counter' = [counter EXCEPT !.pc = "exited", !.error = e, !.exit = 1]
    /\ UNCHANGED <<chatVars, collection, seedVars, scrapeVars, peer,
                   bubble, clearPc, clears, config>>

\* part_003 20-21, 30: the count arrives, is printed, exit 0
CountOk ==
    /\ counter.pc = "count"
    /\ counter.docs <= CountCeiling
    /\ counter' = [counter EXCEPT !.pc = "exited",
                                  !.printed = <<ExactLine(counter.docs)>>,
                                  !.exit = 0]
    /\ UNCHANGED <<chatVars, collection, seedVars, scrapeVars, peer,
                   bubble, clearPc, clears, config>>

\* part_003 22-27 with the "Too many" error thrown on like any other
CountTooManyRethrown ==
    /\ counter.pc = "count"
    /\ counter.docs > CountCeiling
    /\ \E e \in TooManyErrors :
        counter' = [counter EXCEPT !.pc = "exited", !.error = e, !.exit = 1]
    /\ UNCHANGED <<chatVars, collection, seedVars, scrapeVars, peer,
                   bubble, clearPc, clears, config>>

\* part_003 20, 22-24, 30: the store has more documents than the bound; the
\* inner catch prints "1000+", exit 0
CountTooMany ==
    /\ counter.pc = "count"
    /\ counter.docs > CountCeiling
    /\ \E e \in TooManyErrors :
        /\ IncludesTooMany(e)
        /\ counter' = [counter EXCEPT !.pc = "exited", !.error = e,
                                      !.printed = <<CeilingLine>>, !.exit = 0]
    /\ UNCHANGED <<chatVars, collection, seedVars, scrapeVars, peer,
                   bubble, clearPc, clears, config>>

\* part_003 20, 25-27, 31-34: another error of the store is thrown on; the
\* outer catch exits 1
CountThrow ==
    /\ counter.pc = "count"
    /\ \E e \in CountErrors :
        /\ ~IncludesTooMany(e)
        /\ counter' = [counter EXCEPT !.pc = "exited", !.error = e, !.exit = 1]
    /\ UNCHANGED <<chatVars, collection, seedVars, scrapeVars, peer,
                   bubble, clearPc, clears, config>>

CountNext ==
    \/ CountCollectionOk \/ CountCollectionThrow
    \/ CountOk \/ CountTooMany \/ CountThrow

CountSpec == CountInit /\ [][CountNext]_vars

\* C24: the count script prints the exact number of documents when there are
\* at most 1000, prints "1000+" and no number of its own when the store says
\* there are too many to count, and exits 0 in both cases; after any other
\* error of the store it prints no count and exits 1.
CountReports ==
    counter.pc = "exited" =>
        /\ (counter.error = "" /\ counter.docs <= CountCeiling) =>
                /\ counter.printed = <<ExactLine(counter.docs)>>
                /\ counter.exit = 0
        /\ counter.docs > CountCeiling /\ counter.error \notin CountErrors =>
                /\ counter.error \in TooManyErrors
                /\ counter.printed = <<CeilingLine>>
                /\ counter.exit = 0
        /\ counter.error \in CountErrors =>
                /\ counter.printed = <<>>
                /\ counter.exit = 1
        /\ counter.exit \in {0, 1}

\* C24 witness: a collection of one document more than the ceiling was
\* reported as "1000+" with exit code 0.
CountReportsWitness ==
    /\ counter.pc = "exited"
    /\ counter.docs = CountCeiling + 1
    /\ counter.printed = <<CeilingLine>>
    /\ counter.exit = 0

(***************************************************************************)
(* The clear script, src/scripts/clearDb.ts 1-26 (clearDatabase), run      *)
(* between seed runs: npm run clear-db, npm run seed, npm run reseed.  One *)
(* script runs at a time.                                                  *)
(***************************************************************************)
MaxClears == 2

DropErrors == {"DataAPIError: unauthorized", "DataAPIError: timeout"}

\* A finished clear run: its exit code, whether the collection was dropped,
\* and the number of seed runs that had ended before it.
ClearRun(code, dropped) == [code |-> code, dropped |-> dropped, after |-> Len(exits)]

ReseedInit ==
    /\ ChatIdle
    /\ ScrapeIdle
    /\ PeerIdle
    /\ ToolsIdle
    /\ exists = TRUE
    /\ collection = <<OldRecord>>
    /\ pages \in {[u \in 1..MaxUrls |-> n] : n \in 1..MaxChunks}
    /\ seedPc = "idle"
    /\ urlIdx = 0
    /\ chunks = <<>>
    /\ chunkIdx = 0
    /\ vector = NoEmbedding
    /\ inFlight = {}
    /\ events = <<>>
    /\ exits = <<>>
    /\ runs = 0

\* clearDb.ts 26, 14-17: clearDatabase() of a new process calls db.dropCollection
ClearStart ==
    /\ clearPc \in {"idle", "exited"}
    /\ seedPc \in {"idle", "exited"}
    /\ Len(clears) < MaxClears
    /\ clearPc' = "drop.await"
    /\ UNCHANGED <<chatVars, collection, seedVars, scrapeVars, peer,
                   bubble, counter, clears, config>>

\* clearDb.ts 17-19 with a drop that leaves the records where they are
ClearKeepsRecords ==
    /\ clearPc = "drop.await"
    /\ clears' = Append(clears, ClearRun(0, TRUE))
    /\ clearPc' = "exited"
    /\ UNCHANGED <<chatVars, collection, seedVars, scrapeVars, peer,
                   bubble, counter, config>>

\* clearDb.ts 17-19: the collection is dropped with all its records; exit 0
ClearOk ==
    /\ clearPc = "drop.await"
    /\ exists' = FALSE
    /\ collection' = <<>>
    /\ clears' = Append(clears, ClearRun(0, TRUE))
    /\ clearPc' = "exited"
    /\ UNCHANGED <<chatVars, pages, seedPc, urlIdx, chunks, chunkIdx, vector, inFlight,
                   events, exits, runs, scrapeVars, peer, bubble, counter, config>>

\* clearDb.ts 17, 20-23: the drop fails; exit 1
ClearThrow ==
    /\ clearPc = "drop.await"
    /\ \E e \in DropErrors : clears' = Append(clears, ClearRun(1, FALSE))
    /\ clearPc' = "exited"
    /\ UNCHANGED <<chatVars, collection, seedVars, scrapeVars, peer,
                   bubble, counter, config>>

\* A step of the seed script while no clear is running.
SeedStep == clearPc # "drop.await" /\ SeedNext

ReseedNext == SeedStep \/ ClearStart \/ ClearOk \/ ClearThrow

ReseedSpec == ReseedInit /\ [][ReseedNext]_vars

RECURSIVE ChunksUpTo(_)
ChunksUpTo(u) == IF u = 0 THEN 0 ELSE pages[u] + ChunksUpTo(u - 1)

\* The collection was dropped after the last seed run that ended.
ClearedSince(n) ==
    \E i \in 1..Len(clears) : clears[i].dropped /\ clears[i].after >= n

\* The positions of events at which an insert of the current run ended.
InsertsDone ==
    {i \in 1..Len(events) : events[i].call.op = "insert" /\ events[i].phase = "end"}

\* C28: a stored record is never changed and never deleted on its own: every
\* step leaves the collection as it is, appends one record, or is the drop of
\* the clear script; and after a seed run that failed part-way the records it
\* had inserted are still the last records of the collection.
RecordsOnlyGrow ==
    /\ [][\/ collection' = collection
          \/ /\ Len(collection') = Len(collection) + 1
             /\ SubSeq(collection', 1, Len(collection)) = collection
          \/ /\ clearPc = "drop.await"
             /\ Len(clears') = Len(clears) + 1
             /\ Last(clears').dropped
             /\ collection' = <<>>]_vars
    /\ []((RunOver /\ LastExit = 1 /\ ~ClearedSince(Len(exits)))
            => LET n == Cardinality(InsertsDone)
               IN  /\ n <= Len(collection)
                   /\ \A i \in InsertsDone :
                        LET rank == Cardinality({j \in InsertsDone : j <= i})
                        IN  collection[Len(collection) - n + rank].text
                                = ChunkText(events[i].call.url, events[i].call.chunk))

\* C28 witness: a run failed at the insert of its second chunk; the record of
\* the first is in the collection.
RecordsOnlyGrowWitness ==
    /\ RunOver
    /\ LastExit = 1
    /\ events # <<>>
    /\ Last(events).call = Call("insert", 1, 2)
    /\ Last(events).phase = "error"
    /\ collection # <<>>
    /\ Last(collection).text = ChunkText(1, 1)

\* C29: after a clear that succeeded and a seed run that then succeeded, the
\* collection holds one record per chunk of that run and nothing else; a clear
\* run exits 0 when the drop succeeded, leaving no collection, and 1 when it
\* failed.
ReseedLeavesOneRun ==
    /\ \A i \in 1..Len(clears) : clears[i].code = (IF clears[i].dropped THEN 0 ELSE 1)
    /\ (clears # <<>> /\ Last(clears).dropped /\ Last(clears).after = Len(exits)
            /\ seedPc \in {"idle", "exited"})
            => (collection = <<>> /\ ~exists)
    /\ (/\ RunOver
        /\ LastExit = 0
        /\ \E i \in 1..Len(clears) : clears[i].dropped /\ clears[i].after = Len(exits) - 1
        /\ ~ClearedSince(Len(exits)))
            => /\ Len(collection) = ChunksUpTo(MaxUrls)
               /\ \A u \in 1..MaxUrls : \A k \in 1..pages[u] :
                    RecordCount(ChunkText(u, k)) = 1

\* C29 witness: a seed run, a clear and a second seed run all succeeded on a
\* collection that held an older record.
ReseedWitness ==
    /\ exits = <<0, 0>>
    /\ RunOver
    /\ clears # <<>>
    /\ Last(clears) = [code |-> 0, dropped |-> TRUE, after |-> 1]
    /\ Len(collection) = ChunksUpTo(MaxUrls)
    /\ OldRecord \notin {collection[i] : i \in 1..Len(collection)}

(***************************************************************************)
(* Ingestion and query together: a request arrives between seed runs and  *)
(* searches what they have stored; src/scripts/clearDb.ts 94-147 and       *)
(* src/app/api/chat/route.ts 23-53.                                        *)
(***************************************************************************)
\* clearDb.ts 98: the dimension createCollection declares
Dimension == 1536

\* The length of the vectors an embedding model returns when, as in both
\* calls, no dimensions option is given.
ModelDimension(model) ==
    CASE model = "text-embedding-3-small" -> 1536
      [] model = "text-embedding-3-large" -> 3072
      [] OTHER -> 0

\* vector.length
VectorLength(v) == ModelDimension(v.model)

IngestQueryInit ==
    /\ ChatIdle
    /\ ScrapeIdle
    /\ PeerIdle
    /\ ToolsIdle
    /\ exists \in BOOLEAN
    /\ collection \in (IF exists THEN {<<OldRecord>>} ELSE {<<>>})
    /\ pages \in {[u \in 1..MaxUrls |-> n] : n \in 1..MaxChunks}
    /\ seedPc = "idle"
    /\ urlIdx = 0
    /\ chunks = <<>>
    /\ chunkIdx = 0
    /\ vector = NoEmbedding
    /\ inFlight = {}
    /\ events = <<>>
    /\ exits = <<>>
    /\ runs = 0

\* A step of the seed script while no request is being handled.
SeedBeforeRequest == pc = "idle" /\ SeedNext

\* route.ts 21-23: a request arrives after a seed run and its body is read
Arrive ==
    /\ pc = "idle"
    /\ seedPc = "exited"
    /\ messages' \in ShortConversations
    /\ pc' = "extract"
    /\ UNCHANGED <<otherVars, body, collection, connected, userQuery, queryEmbedding,
                   searchResults, docContext, systemPrompt, embedCalls, searches,
                   genCalls, responses, logged, failedAt, genState, produced, delivered>>

IngestQueryNext == SeedBeforeRequest \/ Arrive \/ ExtractOk \/ EmbedOk \/ RetrieveOk

IngestQuerySpec == IngestQueryInit /\ [][IngestQueryNext]_vars

\* C26: every vector ingestion inserts and every vector a request searches
\* with comes from the same embedding model and has the dimension
\* createCollection declares, 1536.
VectorsConsistent ==
    /\ \A i \in 1..Len(collection) :
        /\ collection[i].vector.model = "text-embedding-3-small"
        /\ VectorLength(collection[i].vector) = Dimension
    /\ \A j \in 1..Len(searches) :
        /\ VectorLength(searches[j].sort) = Dimension
        /\ \A i \in 1..Len(collection) : searches[j].sort.model = collection[i].vector.model
    /\ seedPc \in {"insert", "insert.await"} => VectorLength(vector) = Dimension

\* C26 witness: a request has searched, with its query vector, a collection
\* that holds a record of the seed run, and has found records.
VectorsWitness ==
    /\ searches # <<>>
    /\ searchResults # <<>>
    /\ userQuery # <<>>
    /\ \E i \in 1..Len(collection) : collection[i].text = ChunkText(1, 1)

(***************************************************************************)
(* The configuration values: the module scopes that read process.env       *)
(* (route.ts 6-19, clearDb.ts 4-12 and 38-48, 84-85, part_003 4-12) and    *)
(* the first use of the collection name in each program.  The code checks  *)
(* none of the values.  A client constructor that is handed a missing      *)
(* value is taken to throw while the module loads.                         *)
(***************************************************************************)
Programs == {"route", "seed", "clear", "count"}

\* The values a program reads from process.env.
Required(program) ==
    {"ASTRA_DB_NAMESPACE", "ASTRA_DB_COLLECTION", "ASTRA_DB_API_ENDPOINT",
     "ASTRA_DB_APPLICATION_TOKEN"}
        \cup (IF program \in {"route", "seed"} THEN {"OPENAI_API_KEY"} ELSE {})

\* The values the module scope hands to a constructor: new DataAPIClient(token),
\* client.db(endpoint, {keyspace}), new OpenAI({apiKey}).
UsedAtLoad(program) == Required(program) \ {"ASTRA_DB_COLLECTION"}

\* The remote call a program makes with the collection name.
FirstUse(program) ==
    CASE program = "route" -> "collection.find"
      [] program = "seed" -> "db.createCollection"
      [] program = "clear" -> "db.dropCollection"
      [] OTHER -> "collection.countDocuments"

ConfigInit ==
    /\ RestIdle
    /\ ScrapeIdle
    /\ bubble = NoBubble
    /\ counter = NoCount
    /\ clearPc = "idle"
    /\ clears = <<>>
    /\ config \in {[NoConfig EXCEPT !.program = p, !.missing = m, !.pc = "load"] :
                    p \in Programs, m \in SUBSET Required("route")}
    /\ config.missing \subseteq Required(config.program)

\* route.ts 6-19, clearDb.ts 4-12, 38-48, 84-85: the module scope runs to its
\* end; ASTRA_DB_COLLECTION is read into a const and not looked at
ConfigLoadOk ==
    /\ config.pc = "load"
    /\ config.missing \cap UsedAtLoad(config.program) = {}
    /\ config' = [config EXCEPT !.pc = IF config.program = "route" THEN "embed" ELSE "use"]
    /\ UNCHANGED <<chatVars, collection, seedVars, scrapeVars, peer,
                   bubble, counter, clearPc, clears>>

\* route.ts 14-19, clearDb.ts 11-12, 46-48, 84-85: a constructor throws on a
\* missing value while the module loads
ConfigLoadThrow ==
    /\ config.pc = "load"
    /\ config.missing \cap UsedAtLoad(config.program) # {}
    /\ config' = [config EXCEPT !.pc = "failed", !.thrown = "startup"]
    /\ UNCHANGED <<chatVars, collection, seedVars, scrapeVars, peer,
                   bubble, counter, clearPc, clears>>

\* route.ts 21-41: a request is handled up to the embedding call
ConfigEmbed ==
    /\ config.pc = "embed"
    /\ config' = [config EXCEPT !.pc = "use",
                                !.remote = Append(config.remote, "embeddings.create")]
    /\ UNCHANGED <<chatVars, collection, seedVars, scrapeVars, peer,
                   bubble, counter, clearPc, clears>>

\* route.ts 44-53, clearDb.ts 17, 96, part_003 16-20: the call with the
\* collection name resolves
ConfigUseOk ==
    /\ config.pc = "use"
    /\ "ASTRA_DB_COLLECTION" \notin config.missing
    /\ config' = [config EXCEPT !.pc = "done",
                                !.remote = Append(config.remote, FirstUse(config.program))]
    /\ UNCHANGED <<chatVars, collection, seedVars, scrapeVars, peer,
                   bubble, counter, clearPc, clears>>

\* route.ts 44-53, clearDb.ts 17, 96, part_003 16-20: the call is made with
\* undefined for the collection name and fails
ConfigUseThrow ==
    /\ config.pc = "use"
    /\ "ASTRA_DB_COLLECTION" \in config.missing
    /\ config' = [config EXCEPT !.pc = "failed", !.thrown = "first use",
                                !.remote = Append(config.remote, FirstUse(config.program))]
    /\ UNCHANGED <<chatVars, collection, seedVars, scrapeVars, peer,
                   bubble, counter, clearPc, clears>>

ConfigNext ==
    ConfigLoadOk \/ ConfigLoadThrow \/ ConfigEmbed \/ ConfigUseOk \/ ConfigUseThrow

ConfigSpec == ConfigInit /\ [][ConfigNext]_vars

\* C25: with a required configuration value missing the program fails while
\* it starts, before a request is handled and before a remote call is made,
\* and never when the value is first used.
FailsAtStartup ==
    (config.missing # {} /\ config.pc # "load") =>
        /\ config.pc = "failed"
        /\ config.thrown = "startup"
        /\ config.remote = <<>>

====
